---- MODULE Spec2Model ----
(***************************************************************************)
(* A model of mcp-server-templated (src/src/index.ts): the process-wide    *)
(* Session Scope (API key, folder id, external id), the tool registry and  *)
(* its scoped listing, the tool handlers with their downstream REST calls, *)
(* the dispatch boundary that turns faults into error payloads, and the    *)
(* HTTP transport shell that overwrites the scope per incoming request.    *)
(*                                                                         *)
(* JavaScript values are tokens (strings): "undefined" and "null" are the  *)
(* two absent values, numbers are "n0"/"n5"/"NaN", booleans "bF"/"bT",     *)
(* objects and arrays "o1"; every other token is the string itself ("" is *)
(* the empty string).  Identifiers (template ids, folder ids, keys) are    *)
(* plain non-empty strings.                                                *)
(***************************************************************************)
EXTENDS Integers, Sequences, FiniteSets, TLC

\* ------------------------------------------------------------ bounds
\* HTTP requests accepted in one behaviour.
MaxHttp == 2
\* Tool calls dispatched in one behaviour.
MaxCalls == 1
\* Optional arguments a caller supplies in one call (argument specification).
MaxOptArgs == 2
\* Tool calls dispatched in one behaviour of the concurrent specification.
MaxPair == 2

\* The calls one process serves in the hang specification.
MaxHang == 3

\* ------------------------------------------------------------ JS values
Undefined == "undefined"
Null == "null"
Empty == ""

\* JavaScript truthiness of a value token: if (v) ...
Truthy(v) == v \notin {Undefined, Null, Empty, "n0", "bF", "NaN"}

\* String(v) and template-literal interpolation of a value token.
JsString(v) ==
  CASE v = "n0" -> "0"
    [] v = "n5" -> "5"
    [] v = "bF" -> "false"
    [] v = "bT" -> "true"
    [] OTHER    -> v

Range(s) == {s[i] : i \in 1..Len(s)}

\* An object literal from a set of <<key, value>> pairs (keys distinct).
Obj(pairs) ==
  [k \in {p[1] : p \in pairs} |-> (CHOOSE p \in pairs : p[1] = k)[2]]

EmptyObj == Obj({})

\* args.k: the property of the arguments object, undefined when absent.
Arg(args, k) == IF k \in DOMAIN args THEN args[k] ELSE Undefined

\* ------------------------------------------------------------ value sets
TemplateIds == {"t1", "t2", "t3"}
MissingId == "tx"
NewIdSeq == <<"n1", "n2", "n3", "n4">>
AllIdSeq == <<"t1", "t2", "t3", "n1", "n2", "n3", "n4">>
AllIds == Range(AllIdSeq)
Folders == {"f1", "f2"}
ExternalIds == {"e1", "e2"}

\* ------------------------------------------------------------ registry
FolderTools == {"list_folders", "create_folder", "update_folder", "delete_folder"}

\* Tools whose handler runs both validators before its own request.
ValidatedTools ==
  {"create_render", "get_template", "get_template_layers", "get_template_pages",
   "update_template", "clone_template", "delete_template", "list_template_renders"}

Tool(n, d, req, opt) ==
  [name |-> n, description |-> <<d>>, required |-> req, optional |-> opt]

\* The static registry, in source order: name, description (abridged except
\* for the two that a scoped listing rewrites; a description is a sequence
\* of text pieces), required and optional properties of the input schema.
tools ==
  << Tool("create_render", "Create a render", {"template"},
          {"format", "layers", "transparent", "duration", "fps", "flatten",
           "cmyk", "width", "height", "scale", "name", "background"}),
     Tool("get_render", "Get a render", {"render_id"}, {}),
     Tool("list_renders", "List all renders in the account", {}, {"page", "limit"}),
     Tool("delete_render", "Delete a render", {"render_id"}, {}),
     Tool("merge_renders", "Merge renders", {"render_ids"}, {"host"}),
     Tool("list_templates",
          "List all templates in the account. Use this to find template IDs for rendering.",
          {}, {"query", "page", "limit", "width", "height", "tags", "includeLayers"}),
     Tool("get_template", "Get a template", {"template_id"}, {}),
     Tool("get_template_layers", "Get template layers", {"template_id"}, {}),
     Tool("get_template_pages", "Get template pages", {"template_id"}, {}),
     Tool("create_template", "Create a template", {"name", "width", "height"},
          {"background", "duration", "layers"}),
     Tool("update_template", "Update a template", {"template_id"},
          {"name", "description", "width", "height", "background", "duration",
           "layers", "replaceLayers"}),
     Tool("clone_template", "Clone a template", {"template_id"}, {"name"}),
     Tool("delete_template", "Delete a template", {"template_id"}, {}),
     Tool("list_template_renders", "List renders of a template", {"template_id"},
          {"page", "limit"}),
     Tool("list_folders", "List folders", {}, {"page", "limit"}),
     Tool("create_folder", "Create a folder", {"name"}, {}),
     Tool("update_folder", "Update a folder", {"folder_id", "name"}, {}),
     Tool("delete_folder", "Delete a folder", {"folder_id"}, {}),
     Tool("list_uploads", "List uploads", {}, {"page", "limit"}),
     Tool("create_upload", "Create an upload", {"url"}, {"name"}),
     Tool("delete_upload", "Delete an upload", {"upload_id"}, {}),
     Tool("list_fonts", "List fonts", {}, {"page", "limit"}),
     Tool("upload_font", "Upload a font", {"url", "name"}, {}),
     Tool("delete_font", "Delete a font", {"font_id"}, {}),
     Tool("get_account", "Get account", {}, {}) >>

ToolNames == {tools[i].name : i \in 1..Len(tools)}

\* A tool name the registry does not hold.
UnknownTools == {"no_such_tool"}

ToolByName(n) == tools[CHOOSE i \in 1..Len(tools) : tools[i].name = n]

\* The type of each schema property, as a value-token set: the falsy and a
\* truthy representative of the declared JSON type.
ArgValues(k) ==
  CASE k \in {"template", "template_id"} -> TemplateIds \cup {MissingId}
    [] k \in {"render_id", "folder_id", "upload_id", "font_id"} -> {"r1"}
    [] k = "render_ids" -> {"o1"}
    [] k = "layers" -> {"o1"}
    [] k \in {"transparent", "flatten", "cmyk", "host", "includeLayers",
              "replaceLayers"} -> {"bF", "bT"}
    [] k \in {"duration", "fps", "width", "height", "scale", "page", "limit"}
         -> {"n0", "n5"}
    [] OTHER -> {Empty, "x"}

\* ------------------------------------------------------------ state
VARIABLES
  env,               \* process.env: the startup configuration
  mode,              \* the transport main() started: "stdio" or "http"
  currentApiKey,     \* module-level let currentApiKey
  currentFolderId,   \* module-level let currentFolderId
  currentExternalId, \* module-level let currentExternalId
  pending,           \* HTTP requests whose MCP message awaits dispatch
  nhttp,             \* HTTP requests accepted so far
  calls,             \* the tool calls: handler position, locals, response
  ncalls,            \* tool calls dispatched so far
  templates,         \* the downstream API's templates
  created,           \* templates the downstream API has created so far
  lastList,          \* the latest list() result, with the scope it was computed under
  httpRes,           \* the response the HTTP handler itself wrote to the latest request
  registry           \* module-level const tools: the array and its tool objects

vars == <<env, mode, currentApiKey, currentFolderId, currentExternalId,
          pending, nhttp, calls, ncalls, templates, created, lastList, httpRes,
          registry>>

\* ------------------------------------------------------------ scope
\* Faulty variant of getApiKey: the environment's key is preferred.
getApiKey_EnvFirst ==
  IF Truthy(env.TEMPLATED_API_KEY) THEN env.TEMPLATED_API_KEY
  ELSE IF Truthy(currentApiKey) THEN currentApiKey ELSE Empty

\* getApiKey(): the per-request key when truthy, else the environment's, else "".
getApiKey ==
  IF Truthy(currentApiKey) THEN currentApiKey
  ELSE IF Truthy(env.TEMPLATED_API_KEY) THEN env.TEMPLATED_API_KEY ELSE Empty

\* getFolderId(): the per-request folder when truthy, else the environment's, else null.
getFolderId ==
  IF Truthy(currentFolderId) THEN currentFolderId
  ELSE IF Truthy(env.TEMPLATED_FOLDER_ID) THEN env.TEMPLATED_FOLDER_ID ELSE Null

\* getExternalId(): the per-request external id when truthy, else the environment's, else null.
getExternalId ==
  IF Truthy(currentExternalId) THEN currentExternalId
  ELSE IF Truthy(env.TEMPLATED_EXTERNAL_ID) THEN env.TEMPLATED_EXTERNAL_ID ELSE Null

\* ------------------------------------------------------------ listing
\* Faulty variant of hiddenTools: delete_folder is left visible.
hiddenTools_Partial(folderId) ==
  IF Truthy(folderId) THEN {"list_folders", "create_folder", "update_folder"} ELSE {}

\* The set of names a scoped listing hides.
hiddenTools(folderId) == IF Truthy(folderId) THEN FolderTools ELSE {}

scopeLabel(folderId, externalId) ==
  IF Truthy(folderId) /\ Truthy(externalId) THEN "the configured folder and external ID"
  ELSE IF Truthy(folderId) THEN "the configured folder"
  ELSE "the configured external ID"

\* The .map callback of the scoped listing: a relabelled copy of two tools.
relabel(tool, label) ==
  IF tool.name = "list_templates"
    THEN [tool EXCEPT !.description =
            <<"List templates in ", label, ". Use this to find template IDs for rendering.">>]
  ELSE IF tool.name = "list_renders"
    THEN [tool EXCEPT !.description = <<"List renders in ", label>>]
  ELSE tool

\* The ListToolsRequestSchema handler, as a function of the scope it reads.
ListTools(folderId, externalId) ==
  IF ~Truthy(folderId) /\ ~Truthy(externalId) THEN registry
  ELSE LET kept == SelectSeq(registry, LAMBDA t : t.name \notin hiddenTools(folderId))
       IN [i \in 1..Len(kept) |-> relabel(kept[i], scopeLabel(folderId, externalId))]

\* Faulty variant of RegistryAfterList: the scoped listing relabels the
\* registry's own tool objects.
RegistryAfterList_InPlace(reg, folderId, externalId) ==
  IF ~Truthy(folderId) /\ ~Truthy(externalId) THEN reg
  ELSE [i \in 1..Len(reg) |-> relabel(reg[i], scopeLabel(folderId, externalId))]

\* The registry after the handler ran: .filter and .map build new arrays
\* and the spread builds new objects, so the registry is as it was.
RegistryAfterList(reg, folderId, externalId) == reg

\* ------------------------------------------------------------ messages
\* The message of the Error apiRequest throws when no key resolves.
MissingKeyMessage ==
  <<"API key required",
    ". Please provide your Templated API key via ?apiKey= query parameter or Authorization header.">>

\* Faulty variant of ApiErrorMessage: the raw body is not carried.
ApiErrorMessage_NoBody(status, errorText) == <<"API error (", ToString(status), ")">>

\* `API error (${response.status}): ${errorText}`
ApiErrorMessage(status, errorText) == <<"API error (", ToString(status), "): ", errorText>>

FolderMessage == <<"Template not found in the configured folder">>

ExternalIdMessage == <<"Template not found for the configured external ID">>

\* `Unknown tool: ${name}`
UnknownToolMessage(name) == <<"Unknown tool", ": ", name>>

\* The TypeError of reading a property of an absent arguments object.
TypeErrorMessage == <<"Cannot read properties of undefined">>

\* Whether a text, a sequence of pieces, contains the piece.
Contains(text, piece) == piece \in Range(text)

\* Faulty variant of ErrorResponse: the payload is not flagged.
ErrorResponse_NoFlag(errorMessage) ==
  [content |-> <<[type |-> "text", text |-> <<"Error: ">> \o errorMessage]>>]

\* The catch branch of the call handler: `Error: ${errorMessage}`, isError.
ErrorResponse(errorMessage) ==
  [content |-> <<[type |-> "text", text |-> <<"Error: ">> \o errorMessage]>>,
   isError |-> TRUE]

\* The try branch of the call handler: the JSON text of the result, no isError.
SuccessResponse(resultText) ==
  [content |-> <<[type |-> "text", text |-> resultText]>>]

IsErrorResponse(r) == "isError" \in DOMAIN r /\ r.isError

NoResponse == [content |-> <<>>]

\* ------------------------------------------------------------ requests
\* Faulty variant of TruthyPairs: `body.k = args.k || null` for every key.
TruthyPairs_OrNull(args, keys) ==
  {<<k, IF Truthy(Arg(args, k)) THEN Arg(args, k) ELSE Null>> : k \in keys}

\* The pairs a handler copies under `if (args.k) body.k = args.k`.
TruthyPairs(args, keys) ==
  {<<k, Arg(args, k)>> : k \in {x \in keys : Truthy(Arg(args, x))}}

\* The pairs a handler copies under `if (args.k !== undefined) params.k = String(args.k)`.
DefinedParams(args, keys) ==
  {<<k, JsString(Arg(args, k))>> : k \in {x \in keys : Arg(args, x) # Undefined}}

\* The pairs a handler copies under `if (args.k) params.k = String(args.k)`.
TruthyParams(args, keys) ==
  {<<k, JsString(Arg(args, k))>> : k \in {x \in keys : Truthy(Arg(args, x))}}

\* `if (args.k) params.k = "true"`
FlagParams(args, keys) ==
  {<<k, "true">> : k \in {x \in keys : Truthy(Arg(args, x))}}

\* Faulty variant of ExternalIdPairs: the external id is never added.
ExternalIdPairs_Never(externalId) == {}

\* `if (externalId) params.externalId = externalId` / body.externalId likewise.
ExternalIdPairs(externalId) ==
  IF Truthy(externalId) THEN {<<"externalId", externalId>>} ELSE {}

\* JSON.stringify of an object: a property whose value is undefined is dropped.
Stringify(body) == [k \in {x \in DOMAIN body : body[x] # Undefined} |-> body[k]]

\* What apiRequest puts on the wire (the key aside): the body only when one is
\* given and the method carries one, the query only when it has keys.
Wire(method, path, bodyGiven, body, params) ==
  LET hasBody == bodyGiven /\ method \in {"POST", "PUT", "PATCH"}
  IN [method |-> method, path |-> path, hasBody |-> hasBody,
      body |-> IF hasBody THEN Stringify(body) ELSE EmptyObj,
      query |-> params]

Get(path) == Wire("GET", path, FALSE, EmptyObj, EmptyObj)

GetQ(path, params) == Wire("GET", path, FALSE, EmptyObj, params)

Delete(path) == Wire("DELETE", path, FALSE, EmptyObj, EmptyObj)

Post(path, body) == Wire("POST", path, TRUE, body, EmptyObj)

\* The request of validateTemplateInFolder and validateTemplateByExternalId.
ValidationRequest(templateId) == Get(<<"/v1/template/", JsString(templateId)>>)

\* The request of moveTemplateToFolder.
MoveRequest(folderId, templateId) ==
  Wire("PUT", <<"/v1/folder/", folderId, "/template/", JsString(templateId)>>,
       FALSE, EmptyObj, EmptyObj)

\* The request of clone_template that sets the external id on the clone.
SetExternalIdRequest(templateId, externalId) ==
  Wire("PUT", <<"/v1/template/", JsString(templateId)>>, TRUE,
       Obj({<<"externalId", externalId>>}), EmptyObj)

PageParams(args) == Obj(DefinedParams(args, {"page", "limit"}))

\* The request a tool's handler issues for the operation itself, from the
\* arguments and the scope the handler reads when it builds the request.
OwnRequest(name, args, folderId, externalId) ==
  CASE name = "create_render" ->
         Post(<<"/v1/render">>,
              Obj({<<"template", Arg(args, "template")>>} \cup
                  TruthyPairs(args, {"format", "layers", "transparent", "duration",
                                     "fps", "flatten", "cmyk", "width", "height",
                                     "scale", "name", "background"})))
    [] name = "get_render" -> Get(<<"/v1/render/", JsString(Arg(args, "render_id"))>>)
    [] name = "list_renders" ->
         GetQ(IF Truthy(folderId) THEN <<"/v1/folder/", folderId, "/renders">>
              ELSE <<"/v1/renders">>,
              Obj(DefinedParams(args, {"page", "limit"}) \cup ExternalIdPairs(externalId)))
    [] name = "delete_render" -> Delete(<<"/v1/render/", JsString(Arg(args, "render_id"))>>)
    [] name = "merge_renders" ->
         Post(<<"/v1/renders/merge">>,
              Obj({<<"ids", Arg(args, "render_ids")>>,
                   <<"host", IF Arg(args, "host") \in {Undefined, Null} THEN "bT"
                             ELSE Arg(args, "host")>>}))
    [] name = "list_templates" ->
         GetQ(IF Truthy(folderId) THEN <<"/v1/folder/", folderId, "/templates">>
              ELSE <<"/v1/templates">>,
              Obj(TruthyParams(args, {"query", "tags"}) \cup
                  DefinedParams(args, {"page", "limit", "width", "height"}) \cup
                  FlagParams(args, {"includeLayers"}) \cup ExternalIdPairs(externalId)))
    [] name = "get_template" -> Get(<<"/v1/template/", JsString(Arg(args, "template_id"))>>)
    [] name = "get_template_layers" ->
         Get(<<"/v1/template/", JsString(Arg(args, "template_id")), "/layers">>)
    [] name = "get_template_pages" ->
         Get(<<"/v1/template/", JsString(Arg(args, "template_id")), "/pages">>)
    [] name = "create_template" ->
         Post(<<"/v1/template">>,
              Obj({<<"name", Arg(args, "name")>>, <<"width", Arg(args, "width")>>,
                   <<"height", Arg(args, "height")>>} \cup
                  TruthyPairs(args, {"layers"}) \cup ExternalIdPairs(externalId)))
    [] name = "update_template" ->
         Wire("PUT", <<"/v1/template/", JsString(Arg(args, "template_id"))>>, TRUE,
              Obj(TruthyPairs(args, {"name", "description", "width", "height", "layers"})),
              Obj(FlagParams(args, {"replaceLayers"})))
    [] name = "clone_template" ->
         Post(<<"/v1/template/", JsString(Arg(args, "template_id")), "/clone">>,
              Obj(TruthyPairs(args, {"name"})))
    [] name = "delete_template" ->
         Delete(<<"/v1/template/", JsString(Arg(args, "template_id"))>>)
    [] name = "list_template_renders" ->
         GetQ(<<"/v1/template/", JsString(Arg(args, "template_id")), "/renders">>,
              PageParams(args))
    [] name = "list_folders" -> GetQ(<<"/v1/folders">>, PageParams(args))
    [] name = "create_folder" ->
         Post(<<"/v1/folder">>, Obj({<<"name", Arg(args, "name")>>}))
    [] name = "update_folder" ->
         Wire("PUT", <<"/v1/folder/", JsString(Arg(args, "folder_id"))>>, TRUE,
              Obj({<<"name", Arg(args, "name")>>}), EmptyObj)
    [] name = "delete_folder" ->
         Delete(<<"/v1/folder/", JsString(Arg(args, "folder_id"))>>)
    [] name = "list_uploads" -> GetQ(<<"/v1/uploads">>, PageParams(args))
    [] name = "create_upload" ->
         Post(<<"/v1/upload">>,
              Obj({<<"url", Arg(args, "url")>>} \cup TruthyPairs(args, {"name"})))
    [] name = "delete_upload" ->
         Delete(<<"/v1/upload/", JsString(Arg(args, "upload_id"))>>)
    [] name = "list_fonts" -> GetQ(<<"/v1/fonts">>, PageParams(args))
    [] name = "upload_font" ->
         Post(<<"/v1/font">>,
              Obj({<<"url", Arg(args, "url")>>, <<"name", Arg(args, "name")>>}))
    [] name = "delete_font" -> Delete(<<"/v1/font/", JsString(Arg(args, "font_id"))>>)
    [] name = "get_account" -> Get(<<"/v1/account">>)

\* Faulty variant of Plan: create_template and clone_template have no follow-up.
Plan_NoFollowUp(name) ==
  CASE name \in ValidatedTools -> <<"vfolder", "vext", "own">>
    [] OTHER -> <<"own">>

\* Faulty variant of Plan: delete_template acts before it validates.
Plan_ActFirst(name) ==
  CASE name = "clone_template" -> <<"vfolder", "vext", "own", "move", "setext">>
    [] name = "create_template" -> <<"own", "move">>
    [] name = "delete_template" -> <<"own", "vfolder", "vext">>
    [] name \in ValidatedTools -> <<"vfolder", "vext", "own">>
    [] OTHER -> <<"own">>

\* The awaited steps of each handler, in source order.  "vfolder" and "vext"
\* are the two validators, "own" the operation's request, "move" is
\* moveTemplateToFolder and "setext" the clone's external-id update.
Plan(name) ==
  CASE name = "clone_template" -> <<"vfolder", "vext", "own", "move", "setext">>
    [] name = "create_template" -> <<"own", "move">>
    [] name \in ValidatedTools -> <<"vfolder", "vext", "own">>
    [] OTHER -> <<"own">>

\* ------------------------------------------------------------ downstream API
\* The downstream REST API is an external collaborator: it is modelled by
\* what its endpoints do to the templates it holds.  Other resources
\* (renders, folders, uploads, fonts, the account) answer generically.
NoTemplate == [exists |-> FALSE, folderId |-> Null, externalId |-> Null]

InitialTemplates ==
  [id \in AllIds |->
     CASE id = "t1" -> [exists |-> TRUE, folderId |-> "f1", externalId |-> "e1"]
       [] id = "t2" -> [exists |-> TRUE, folderId |-> "f1", externalId |-> "e2"]
       [] id = "t3" -> [exists |-> TRUE, folderId |-> "f2", externalId |-> "e1"]
       [] OTHER -> NoTemplate]

Exists(id) == id \in AllIds /\ templates[id].exists

\* The renders the downstream API holds, with the folder and external id of
\* the template each was rendered from.
Renders == [id \in {"r1"} |-> [folderId |-> "f1", externalId |-> "e1"]]

\* The render ids an arguments object addresses: render_id, or the elements
\* of the render_ids array.
RenderIdsOf(args) ==
  (IF Arg(args, "render_id") \in DOMAIN Renders THEN {Arg(args, "render_id")} ELSE {})
  \cup (IF Arg(args, "render_ids") = "o1" THEN {"r1"} ELSE {})

\* The templates a listing returns: folderId is the folder of the path (null
\* for the account-wide path), externalId the query filter (null when absent).
Listing(tpl, folderId, externalId) ==
  {id \in AllIds : /\ tpl[id].exists
                   /\ (Truthy(folderId) => tpl[id].folderId = folderId)
                   /\ (Truthy(externalId) => tpl[id].externalId = externalId)}

ListingText(ids) == <<"[">> \o SelectSeq(AllIdSeq, LAMBDA id : id \in ids) \o <<"]">>

TemplateText(id, t) ==
  <<"{", "id", id, "folderId", t.folderId, "externalId", t.externalId, "}">>

GenericText == <<"{", "ok", "}">>

\* JSON.parse of an empty 2xx body is replaced by { success: true }.
EmptyBodyText == <<"{", "success", "true", "}">>

\* A 2xx answer: the templates after it, the number created, the parsed
\* result's id / folderId / externalId properties and its JSON text.
Served(tpl, n, id, folderId, externalId, text) ==
  [ok |-> TRUE, templates |-> tpl, created |-> n, id |-> id,
   folderId |-> folderId, externalId |-> externalId, text |-> text]

Refused ==
  [ok |-> FALSE, templates |-> templates, created |-> created, id |-> Undefined,
   folderId |-> Undefined, externalId |-> Undefined, text |-> <<>>]

ServedTemplate(tpl, n, id) ==
  Served(tpl, n, id, tpl[id].folderId, tpl[id].externalId, TemplateText(id, tpl[id]))

ServedGeneric == Served(templates, created, Undefined, Undefined, Undefined, GenericText)

\* What the downstream API does with a request it answers 2xx; ok is FALSE
\* when it cannot (the target template does not exist).  inherit says
\* whether a clone carries its source's folder and external id.
Serve(wire, inherit) ==
  LET p == wire.path
      m == wire.method
      fresh == NewIdSeq[created + 1]
  IN CASE Len(p) = 2 /\ p[1] = "/v1/template/" /\ m = "GET" ->
            IF Exists(p[2]) THEN ServedTemplate(templates, created, p[2]) ELSE Refused
       [] Len(p) = 2 /\ p[1] = "/v1/template/" /\ m = "PUT" ->
            IF Exists(p[2])
              THEN ServedTemplate(
                     IF "externalId" \in DOMAIN wire.body
                       THEN [templates EXCEPT ![p[2]].externalId = wire.body["externalId"]]
                       ELSE templates,
                     created, p[2])
              ELSE Refused
       [] Len(p) = 2 /\ p[1] = "/v1/template/" /\ m = "DELETE" ->
            IF Exists(p[2])
              THEN Served([templates EXCEPT ![p[2]] = NoTemplate], created,
                          Undefined, Undefined, Undefined, GenericText)
              ELSE Refused
       [] Len(p) = 3 /\ p[1] = "/v1/template/" /\ p[3] = "/clone" ->
            IF Exists(p[2]) /\ created < Len(NewIdSeq)
              THEN ServedTemplate(
                     [templates EXCEPT ![fresh] =
                        IF inherit THEN templates[p[2]]
                        ELSE [exists |-> TRUE, folderId |-> Null, externalId |-> Null]],
                     created + 1, fresh)
              ELSE Refused
       [] Len(p) = 3 /\ p[1] = "/v1/template/" /\ p[3] # "/clone" ->
            IF Exists(p[2]) THEN ServedGeneric ELSE Refused
       [] p = <<"/v1/template">> ->
            IF created < Len(NewIdSeq)
              THEN ServedTemplate(
                     [templates EXCEPT ![fresh] =
                        [exists |-> TRUE, folderId |-> Null,
                         externalId |-> IF "externalId" \in DOMAIN wire.body
                                          THEN wire.body["externalId"] ELSE Null]],
                     created + 1, fresh)
              ELSE Refused
       [] Len(p) = 4 /\ p[1] = "/v1/folder/" /\ p[3] = "/template/" ->
            IF Exists(p[4])
              THEN ServedTemplate([templates EXCEPT ![p[4]].folderId = p[2]], created, p[4])
              ELSE Refused
       [] Len(p) = 3 /\ p[1] = "/v1/folder/" /\ p[3] = "/templates" ->
            Served(templates, created, Undefined, Undefined, Undefined,
                   ListingText(Listing(templates, p[2], Arg(wire.query, "externalId"))))
       [] p = <<"/v1/templates">> ->
            Served(templates, created, Undefined, Undefined, Undefined,
                   ListingText(Listing(templates, Null, Arg(wire.query, "externalId"))))
       [] p = <<"/v1/render">> ->
            IF Exists(Arg(wire.body, "template")) THEN ServedGeneric ELSE Refused
       [] OTHER -> ServedGeneric

\* The non-2xx answers the downstream API gives: status and raw body text.
ErrorAnswers ==
  {[status |-> 404, body |-> "not found"], [status |-> 500, body |-> "internal error"]}

\* ------------------------------------------------------------ tool calls
\* The frames of the call handler that can be live at once.
CallIds == {1, 2}

\* The query parameters and Authorization header of an HTTP request; a call
\* that arrived over stdio carries none.
NoParams ==
  [apiKey |-> Null, auth |-> [scheme |-> Null, token |-> Null],
   folderId |-> Null, externalId |-> Null]

\* A call slot before its first call.  pc: "idle", "wait" (a downstream
\* request is in flight) or "done".  local is the scope value the awaiting
\* validator or mover read; dApiKey / dFolderId / dExternalId are the Session
\* Scope in force when the handler started; vFolderId / vExternalId are the attributes
\* of the template the validators fetched; reqs are the requests issued and
\* answer the status and raw body of the latest downstream answer (status 0:
\* none yet).  steps are the awaited steps the handler has entered, in order
\* (a validator or mover is entered even when it has nothing to do);
\* resultFolderId / resultExternalId are properties of the result object of
\* the operation's own request.
IdleCall ==
  [pc |-> "idle", name |-> Empty, hasArgs |-> FALSE, args |-> EmptyObj,
   step |-> 0, local |-> Null, resultId |-> Undefined, resultText |-> <<>>,
   resultFolderId |-> Undefined, resultExternalId |-> Undefined, steps |-> <<>>,
   reqs |-> <<>>, resp |-> NoResponse, params |-> NoParams,
   dApiKey |-> Empty, dFolderId |-> Null, dExternalId |-> Null,
   vFolderId |-> "unseen", vExternalId |-> "unseen",
   answer |-> [status |-> 0, body |-> Empty]]

\* The template a validated tool targets.
TargetId(call) ==
  IF call.name = "create_render" THEN Arg(call.args, "template")
  ELSE Arg(call.args, "template_id")

\* Faulty variant of Throw: the error payload also carries the result so far.
Throw_CarriesResult(call, errorMessage) ==
  [call EXCEPT !.pc = "done", !.resp = ErrorResponse(errorMessage \o call.resultText)]

\* A throw inside the handler, caught at the dispatch boundary.
Throw(call, errorMessage) ==
  [call EXCEPT !.pc = "done", !.resp = ErrorResponse(errorMessage)]

\* apiRequest up to its fetch: resolve the key, throw when there is none,
\* else put the request on the wire and await the answer.  local is the
\* scope value the calling validator or mover read (null for other callers).
apiRequest(call, i, kind, wire, local) ==
  IF ~Truthy(getApiKey) THEN Throw(call, MissingKeyMessage)
  ELSE [call EXCEPT !.pc = "wait", !.step = i, !.local = local,
                    !.reqs = Append(@, [kind |-> kind, key |-> getApiKey, wire |-> wire,
                                            local |-> local])]

\* Faulty variant of FolderMismatch: the validator never throws.
FolderMismatch_Never(templateFolderId, folderId) == FALSE

\* `template.folderId !== folderId` in validateTemplateInFolder.
FolderMismatch(templateFolderId, folderId) == templateFolderId # folderId

\* `template.externalId !== externalId` in validateTemplateByExternalId.
ExternalIdMismatch(templateExternalId, externalId) == templateExternalId # externalId

\* The handler from its i-th awaited step on, run until it awaits a
\* downstream answer, returns or throws.  Each step reads the Session Scope
\* when it starts; a validator or mover whose scope is absent is a no-op.
RECURSIVE Advance(_, _)
Advance(call, i) ==
  IF i > Len(Plan(call.name))
    THEN [call EXCEPT !.pc = "done", !.step = i, !.resp = SuccessResponse(call.resultText)]
  ELSE LET kind == Plan(call.name)[i]
           entered == [call EXCEPT !.steps = Append(@, kind)]
       IN CASE kind = "vfolder" ->
                 IF ~Truthy(getFolderId) THEN Advance(entered, i + 1)
                 ELSE apiRequest(entered, i, kind, ValidationRequest(TargetId(call)),
                                 getFolderId)
            [] kind = "vext" ->
                 IF ~Truthy(getExternalId) THEN Advance(entered, i + 1)
                 ELSE apiRequest(entered, i, kind, ValidationRequest(TargetId(call)),
                                 getExternalId)
            [] kind = "own" ->
                 apiRequest(entered, i, kind,
                            OwnRequest(call.name, call.args, getFolderId, getExternalId), Null)
            [] kind = "move" ->
                 IF ~Truthy(getFolderId) THEN Advance(entered, i + 1)
                 ELSE apiRequest(entered, i, kind, MoveRequest(getFolderId, call.resultId),
                                 getFolderId)
            [] kind = "setext" ->
                 IF ~Truthy(getExternalId) THEN Advance(entered, i + 1)
                 ELSE apiRequest(entered, i, kind,
                                 SetExternalIdRequest(call.resultId, getExternalId),
                                 getExternalId)

\* Faulty variant of handleToolCall: args is read before the switch on name.
handleToolCall_ArgsFirst(call) ==
  IF ~call.hasArgs THEN Throw(call, TypeErrorMessage)
  ELSE IF call.name \notin ToolNames THEN Throw(call, UnknownToolMessage(call.name))
  ELSE Advance(call, 1)

\* handleToolCall from its entry: the switch, and the first read of args.
handleToolCall(call) ==
  IF call.name \notin ToolNames THEN Throw(call, UnknownToolMessage(call.name))
  ELSE IF ~call.hasArgs /\ call.name # "get_account" THEN Throw(call, TypeErrorMessage)
  ELSE Advance(call, 1)

\* The handler after the 2xx answer `served` to its awaited step.
Resume(call, served) ==
  LET kind == Plan(call.name)[call.step]
  IN CASE kind = "vfolder" ->
            LET c1 == [call EXCEPT !.vFolderId = served.folderId]
            IN IF FolderMismatch(served.folderId, call.local)
                 THEN Throw(c1, FolderMessage) ELSE Advance(c1, call.step + 1)
       [] kind = "vext" ->
            LET c1 == [call EXCEPT !.vExternalId = served.externalId]
            IN IF ExternalIdMismatch(served.externalId, call.local)
                 THEN Throw(c1, ExternalIdMessage) ELSE Advance(c1, call.step + 1)
       [] kind = "own" ->
            Advance([call EXCEPT !.resultId = served.id, !.resultText = served.text,
                                 !.resultFolderId = served.folderId,
                                 !.resultExternalId = served.externalId],
                    call.step + 1)
       [] OTHER -> Advance(call, call.step + 1)

\* The request a waiting call has in flight.
InFlight(call) == call.reqs[Len(call.reqs)]

\* ------------------------------------------------------------ inputs
\* The argument objects with exactly the properties keys, each holding a
\* value of its declared type.
RECURSIVE ArgsWith(_)
ArgsWith(keys) ==
  IF keys = {} THEN {EmptyObj}
  ELSE LET k == CHOOSE x \in keys : TRUE
       IN {[x \in DOMAIN a \cup {k} |-> IF x = k THEN v ELSE a[x]] :
             <<a, v>> \in ArgsWith(keys \ {k}) \X ArgValues(k)}

\* A truthy value of the property's declared type.
Typical(k) == CHOOSE v \in ArgValues(k) : Truthy(v)

IdKeys == {"template", "template_id"}

\* The calls of the main specification: every tool with its required
\* arguments (each template id in turn, a typical value elsewhere) and no
\* optional ones; an unknown tool; calls without an arguments object.
PlainArgs(tool) ==
  {a \in ArgsWith(tool.required) :
     \A k \in tool.required \ IdKeys : a[k] = Typical(k)}

PlainInputs ==
  {[name |-> tools[i].name, hasArgs |-> TRUE, args |-> a] :
     <<i, a>> \in UNION {{<<j, b>> : b \in PlainArgs(tools[j])} : j \in 1..Len(tools)}}
  \cup {[name |-> n, hasArgs |-> h, args |-> EmptyObj] :
          <<n, h>> \in (UnknownTools \X BOOLEAN) \cup ({"get_account", "get_template"} \X {FALSE})}

\* The calls of the argument specification: every tool with every typed
\* value of its required arguments and of at most MaxOptArgs optional ones.
RichArgs(tool) ==
  UNION {ArgsWith(tool.required \cup opts) :
           opts \in {o \in SUBSET tool.optional : Cardinality(o) <= MaxOptArgs}}

RichInputs ==
  UNION {{[name |-> tools[j].name, hasArgs |-> TRUE, args |-> a] : a \in RichArgs(tools[j])} :
           j \in 1..Len(tools)}

\* The HTTP requests to an MCP path: the key in the query, in a Bearer
\* header, in a header of another scheme, or nowhere; each scope parameter
\* absent or present.
Credentials ==
  {[apiKey |-> "k1", auth |-> [scheme |-> Null, token |-> Null]],
   [apiKey |-> Null, auth |-> [scheme |-> "Bearer", token |-> "k2"]],
   [apiKey |-> Null, auth |-> [scheme |-> "Basic", token |-> "k3"]],
   [apiKey |-> Null, auth |-> [scheme |-> Null, token |-> Null]]}

\* The scope parameters of the HTTP requests: none, the folder alone, the
\* external id alone, both of one tenant, both of another tenant.
ScopeParams ==
  {<<Null, Null>>, <<"f1", Null>>, <<Null, "e1">>, <<"f1", "e1">>, <<"f2", "e2">>}

HttpRequest(c, sc) ==
  [apiKey |-> c.apiKey, auth |-> c.auth, folderId |-> sc[1], externalId |-> sc[2]]

\* One tenant sends its key in the query with any of the scope parameters,
\* another its key as a Bearer token without scope or with its own; requests
\* without a usable key carry no scope.
HttpRequests ==
  {HttpRequest(c, sc) : <<c, sc>> \in
     {x \in Credentials \X ScopeParams :
        \/ x[1].apiKey = "k1"
        \/ x[1].auth.scheme = "Bearer" /\ x[2] \in {<<Null, Null>>, <<"f2", "e2">>}
        \/ x[2] = <<Null, Null>>}}

\* process.env at startup.
Environment(key, folderId, externalId, port) ==
  [TEMPLATED_API_KEY |-> key, TEMPLATED_FOLDER_ID |-> folderId,
   TEMPLATED_EXTERNAL_ID |-> externalId, PORT |-> port,
   OPENAI_VERIFICATION_TOKEN |-> Undefined]

Environments ==
  {Environment("k0", f, e, Undefined) : <<f, e>> \in {Undefined, "f1"} \X {Undefined, "e1"}}
  \cup {Environment(Undefined, Undefined, Undefined, Undefined),
        Environment(Undefined, Undefined, Undefined, "3000"),
        Environment("k0", Undefined, Undefined, "3000"),
        Environment(Undefined, "f1", "e1", "3000"),
        Environment("k0", Undefined, Undefined, "0"),
        Environment(Undefined, Undefined, Undefined, "abc"),
        Environment(Undefined, Undefined, Undefined, Empty)}

\* parseInt(s, 10) of the PORT strings the environments use, as a number
\* token: the leading decimal integer, NaN when there is none.
ParseInt(s) ==
  CASE s = "3000" -> "n3000"
    [] s = "0" -> "n0"
    [] OTHER -> "NaN"

\* Faulty variant of main: HTTP mode whenever PORT is set.
main_PortPresent(e) == IF e.PORT # Undefined THEN "http" ELSE "stdio"

\* main(): HTTP mode when PORT is truthy and parses to a truthy number, else
\* stdio mode.
main(e) ==
  LET port == IF Truthy(e.PORT) THEN ParseInt(e.PORT) ELSE Null
  IN IF Truthy(port) THEN "http" ELSE "stdio"

\* ------------------------------------------------------------ HTTP routes
McpPaths == {"/mcp", "/sse", "/"}

HealthPath == "/health"

OAuthPath == "/.well-known/oauth-authorization-server"

ChallengePath == "/.well-known/openai-apps-challenge"

\* Paths no route serves.
OtherPaths == {"/other", "/health/x", "/mcp/x"}

Paths == McpPaths \cup {HealthPath, OAuthPath, ChallengePath} \cup OtherPaths

Methods == {"GET", "POST", "PUT", "DELETE", "OPTIONS"}

\* A response of the HTTP server: heads counts the status lines written
\* (res.headersSent is heads > 0); fault records whether the transport raised
\* while handling the request, before or after it had sent headers.
HttpResponse(method, path, status, body) ==
  [method |-> method, path |-> path, status |-> status, body |-> body,
   heads |-> IF status = 0 THEN 0 ELSE 1, fault |-> "none"]

NoHttpResponse == HttpResponse(Null, Null, 0, Empty)

\* Faulty variant of Route: a path no route serves is answered 200.
Route_NoFallthrough(method, path, e) ==
  IF method = "OPTIONS" \/ path = HealthPath \/ path = OAuthPath
    THEN HttpResponse(method, path, 200, Empty)
  ELSE IF path = ChallengePath /\ ~Truthy(e.OPENAI_VERIFICATION_TOKEN)
    THEN HttpResponse(method, path, 404, "Not configured")
  ELSE HttpResponse(method, path, 200, Empty)

\* The response the HTTP handler writes itself, for a request that does not
\* reach the MCP branch: the preflight answer, the health document, the OAuth
\* metadata, the verification token, or the 404 of the fallthrough.
Route(method, path, e) ==
  IF method = "OPTIONS" THEN HttpResponse(method, path, 200, Empty)
  ELSE IF path = HealthPath THEN HttpResponse(method, path, 200, "ok")
  ELSE IF path = OAuthPath THEN HttpResponse(method, path, 200, "metadata")
  ELSE IF path = ChallengePath
    THEN IF Truthy(e.OPENAI_VERIFICATION_TOKEN)
           THEN HttpResponse(method, path, 200, e.OPENAI_VERIFICATION_TOKEN)
           ELSE HttpResponse(method, path, 404, "Not configured")
  ELSE HttpResponse(method, path, 404, "Not found")

\* ------------------------------------------------------------ actions
NoList == [listed |-> FALSE, tools |-> <<>>, folderId |-> Null, externalId |-> Null]

Init ==
  /\ env \in Environments
  /\ mode = main(env)
  /\ currentApiKey = Null
  /\ currentFolderId = Null
  /\ currentExternalId = Null
  /\ pending = <<>>
  /\ nhttp = 0
  /\ calls = [c \in CallIds |-> IdleCall]
  /\ ncalls = 0
  /\ templates = InitialTemplates
  /\ created = 0
  /\ lastList = NoList
  /\ httpRes = NoHttpResponse
  /\ registry = tools

\* A response is written in the turn that produced it: nothing else runs
\* between a handler's return and SendResponse / SendList.
Quiet ==
  /\ ~lastList.listed
  /\ httpRes = NoHttpResponse
  /\ \A c \in CallIds : calls[c].pc # "done"

\* The key an HTTP request carries: the apiKey query parameter, else the
\* token of a Bearer Authorization header, else none.
RequestApiKey(r) ==
  IF Truthy(r.apiKey) THEN r.apiKey
  ELSE IF r.auth.scheme = "Bearer" THEN r.auth.token ELSE Null

\* The HTTP handler on a request to /mcp, /sse or /, up to its await of
\* transport.handleRequest: the Session Scope is written from the request.
HttpMcpRequest(r) ==
  /\ Quiet
  /\ mode = "http"
  /\ nhttp < MaxHttp
  /\ nhttp' = nhttp + 1
  /\ currentApiKey' = IF Truthy(RequestApiKey(r)) THEN RequestApiKey(r) ELSE Empty
  /\ currentFolderId' = IF Truthy(r.folderId) THEN r.folderId ELSE currentFolderId
  /\ currentExternalId' = IF Truthy(r.externalId) THEN r.externalId ELSE currentExternalId
  /\ pending' = Append(pending, r)
  /\ UNCHANGED <<registry, env, mode, calls, ncalls, templates, created, lastList, httpRes>>

Remove(seq, i) == SubSeq(seq, 1, i - 1) \o SubSeq(seq, i + 1, Len(seq))

\* The MCP messages ready for dispatch: over HTTP, the message of any
\* pending request (the transport reads bodies asynchronously); over stdio,
\* a message from the one implicit caller.
Dispatchable == IF mode = "http" THEN 1..Len(pending) ELSE {0}

ParamsOf(i) == IF i = 0 THEN NoParams ELSE pending[i]

Dispatched(i) == IF i = 0 THEN pending ELSE Remove(pending, i)

\* The ListToolsRequestSchema handler.
DispatchList(i) ==
  /\ Quiet
  /\ i \in Dispatchable
  /\ pending' = Dispatched(i)
  /\ lastList' = [listed |-> TRUE, tools |-> ListTools(getFolderId, getExternalId),
                  folderId |-> getFolderId, externalId |-> getExternalId]
  /\ registry' = RegistryAfterList(registry, getFolderId, getExternalId)
  /\ UNCHANGED <<env, mode, currentApiKey, currentFolderId, currentExternalId,
                 nhttp, calls, ncalls, templates, created, httpRes>>

\* The CallToolRequestSchema handler from its entry to its first await (or its
\* return, when the handler throws or returns before one), in the first
\* free frame.
DispatchCall(c, i, inputs, limit) ==
  /\ Quiet
  /\ i \in Dispatchable
  /\ calls[c].pc = "idle"
  /\ \A d \in CallIds : d < c => calls[d].pc # "idle"
  /\ ncalls < limit
  /\ ncalls' = ncalls + 1
  /\ pending' = Dispatched(i)
  /\ \E input \in inputs :
       calls' = [calls EXCEPT ![c] =
                   handleToolCall([IdleCall EXCEPT !.name = input.name,
                                                   !.hasArgs = input.hasArgs,
                                                   !.args = input.args,
                                                   !.params = ParamsOf(i),
                                                   !.dApiKey = getApiKey,
                                                   !.dFolderId = getFolderId,
                                                   !.dExternalId = getExternalId])]
  /\ UNCHANGED <<registry, env, mode, currentApiKey, currentFolderId, currentExternalId,
                 nhttp, templates, created, lastList, httpRes>>

\* The downstream API answers the awaited request 2xx with a JSON body, and
\* the handler runs on to its next await or its end.
AnswerOk(c, inherit) ==
  /\ Quiet
  /\ calls[c].pc = "wait"
  /\ LET served == Serve(InFlight(calls[c]).wire, inherit)
     IN /\ served.ok
        /\ templates' = served.templates
        /\ created' = served.created
        /\ calls' = [calls EXCEPT ![c] =
                       Resume([calls[c] EXCEPT !.answer = [status |-> 200, body |-> "json"]],
                              served)]
  /\ UNCHANGED <<registry, env, mode, currentApiKey, currentFolderId, currentExternalId,
                 pending, nhttp, ncalls, lastList, httpRes>>

\* The downstream API answers 2xx with an empty body: the result is
\* { success: true }, which has no id, folderId or externalId.
AnswerEmpty(c) ==
  /\ Quiet
  /\ calls[c].pc = "wait"
  /\ LET served == Serve(InFlight(calls[c]).wire, FALSE)
     IN /\ served.ok
        /\ templates' = served.templates
        /\ created' = served.created
        /\ calls' = [calls EXCEPT ![c] =
                       Resume([calls[c] EXCEPT !.answer = [status |-> 200, body |-> Empty]],
                              [served EXCEPT !.id = Undefined, !.folderId = Undefined,
                                             !.externalId = Undefined,
                                             !.text = EmptyBodyText])]
  /\ UNCHANGED <<registry, env, mode, currentApiKey, currentFolderId, currentExternalId,
                 pending, nhttp, ncalls, lastList, httpRes>>

\* Faulty variant of AnswerError: the failed request is issued again.
AnswerError_Retry(c, e) ==
  /\ Quiet
  /\ calls[c].pc = "wait"
  /\ calls' = [calls EXCEPT ![c] =
                 [calls[c] EXCEPT !.answer = e, !.reqs = Append(@, InFlight(calls[c]))]]
  /\ UNCHANGED <<registry, env, mode, currentApiKey, currentFolderId, currentExternalId,
                 pending, nhttp, ncalls, templates, created, lastList, httpRes>>

\* The downstream API answers non-2xx: apiRequest throws the status and body.
AnswerError(c, e) ==
  /\ Quiet
  /\ calls[c].pc = "wait"
  /\ calls' = [calls EXCEPT ![c] =
                 Throw([calls[c] EXCEPT !.answer = e], ApiErrorMessage(e.status, e.body))]
  /\ UNCHANGED <<registry, env, mode, currentApiKey, currentFolderId, currentExternalId,
                 pending, nhttp, ncalls, templates, created, lastList, httpRes>>

\* Faulty variant of SendResponse: a call still awaiting its answer is
\* abandoned as well.
SendResponse_AlsoCancels(c) ==
  /\ calls[c].pc \in {"done", "wait"}
  /\ calls' = [calls EXCEPT ![c] = IdleCall]
  /\ UNCHANGED <<registry, env, mode, currentApiKey, currentFolderId, currentExternalId,
                 pending, nhttp, ncalls, templates, created, lastList, httpRes>>

\* The tool response is sent and the call's frame is gone.
SendResponse(c) ==
  /\ calls[c].pc = "done"
  /\ calls' = [calls EXCEPT ![c] = IdleCall]
  /\ UNCHANGED <<registry, env, mode, currentApiKey, currentFolderId, currentExternalId,
                 pending, nhttp, ncalls, templates, created, lastList, httpRes>>

\* The HTTP handler on a request it answers itself: a preflight to any path,
\* or any method to a path outside the MCP endpoints.
HttpPlainRequest(method, path) ==
  /\ Quiet
  /\ mode = "http"
  /\ method = "OPTIONS" \/ path \notin McpPaths
  /\ httpRes' = Route(method, path, env)
  /\ UNCHANGED <<registry, env, mode, currentApiKey, currentFolderId, currentExternalId,
                 pending, nhttp, calls, ncalls, templates, created, lastList>>

\* The response is on the wire and the handler has returned.
HttpEnd ==
  /\ httpRes # NoHttpResponse
  /\ httpRes' = NoHttpResponse
  /\ UNCHANGED <<registry, env, mode, currentApiKey, currentFolderId, currentExternalId,
                 pending, nhttp, calls, ncalls, templates, created, lastList>>

\* Faulty variant of CatchTransportFault: the 500 is written whether or not
\* headers were sent; writing a second status line throws out of the handler.
CatchTransportFault_Unguarded(res) ==
  [res |-> [res EXCEPT !.status = 500, !.body = "Internal server error",
                       !.heads = @ + 1],
   rethrown |-> res.heads > 0]

\* The catch block around transport.handleRequest: a 500 when no headers
\* were sent, nothing otherwise; the handler then returns.
CatchTransportFault(res) ==
  [res |-> IF res.heads = 0
             THEN [res EXCEPT !.status = 500, !.body = "Internal server error",
                              !.heads = 1]
             ELSE res,
   rethrown |-> FALSE]

\* What the transport had written when it raised: nothing, or the status
\* line and headers of its own response.
Partial(path, sent) ==
  IF sent THEN [HttpResponse("POST", path, 200, Empty) EXCEPT !.fault = "after"]
  ELSE [HttpResponse("POST", path, 0, Empty) EXCEPT !.fault = "before"]

\* transport.handleRequest raises on a request to an MCP path, before or
\* after it sent headers, and the handler's catch block runs.  An exception
\* leaving the async handler is an unhandled rejection, which ends the
\* process.
TransportRaises(i, path, sent) ==
  /\ Quiet
  /\ mode = "http"
  /\ i \in 1..Len(pending)
  /\ path \in McpPaths
  /\ pending' = Remove(pending, i)
  /\ LET caught == CatchTransportFault(Partial(path, sent))
     IN /\ httpRes' = caught.res
        /\ mode' = IF caught.rethrown THEN "exited" ELSE mode
  /\ UNCHANGED <<registry, env, currentApiKey, currentFolderId, currentExternalId,
                 nhttp, calls, ncalls, templates, created, lastList>>

\* The tool list is sent.
SendList ==
  /\ lastList.listed
  /\ lastList' = NoList
  /\ UNCHANGED <<registry, env, mode, currentApiKey, currentFolderId, currentExternalId,
                 pending, nhttp, calls, ncalls, templates, created, httpRes>>

Next ==
  \/ \E r \in HttpRequests : HttpMcpRequest(r)
  \/ \E i \in Dispatchable : DispatchList(i)
  \/ \E c \in CallIds, i \in Dispatchable : DispatchCall(c, i, PlainInputs, MaxCalls)
  \/ \E c \in CallIds, inherit \in BOOLEAN : AnswerOk(c, inherit)
  \/ \E c \in CallIds : AnswerEmpty(c)
  \/ \E c \in CallIds, e \in ErrorAnswers : AnswerError(c, e)
  \/ \E c \in CallIds : SendResponse(c)
  \/ SendList

Spec == Init /\ [][Next]_vars

\* The argument specification: one stdio process with a key, under each
\* environment scope, serving one call with any schema-typed arguments.
InitArgs == Init /\ mode = "stdio" /\ Truthy(env.TEMPLATED_API_KEY)

NextArgs ==
  \/ \E c \in CallIds : DispatchCall(c, 0, RichInputs, 1)
  \/ \E c \in CallIds, inherit \in BOOLEAN : AnswerOk(c, inherit)
  \/ \E c \in CallIds : AnswerEmpty(c)
  \/ \E c \in CallIds, e \in ErrorAnswers : AnswerError(c, e)
  \/ \E c \in CallIds : SendResponse(c)

SpecArgs == InitArgs /\ [][NextArgs]_vars

\* The sequential specification: HTTP requests are served strictly one after
\* another (a request arrives only when no message awaits dispatch and no
\* call is in flight), the behaviours of a single client that awaits each
\* response before its next request.
NextSeq ==
  \/ \E r \in HttpRequests :
       pending = <<>> /\ (\A c \in CallIds : calls[c].pc = "idle") /\ HttpMcpRequest(r)
  \/ \E i \in Dispatchable : mode = "http" /\ DispatchList(i)
  \/ \E c \in CallIds, i \in Dispatchable :
       mode = "http" /\ DispatchCall(c, i, PlainInputs, MaxCalls)
  \/ \E c \in CallIds, inherit \in BOOLEAN : AnswerOk(c, inherit)
  \/ \E c \in CallIds : AnswerEmpty(c)
  \/ \E c \in CallIds, e \in ErrorAnswers : AnswerError(c, e)
  \/ \E c \in CallIds : SendResponse(c)
  \/ SendList

SpecSeq == Init /\ [][NextSeq]_vars

\* The concurrent specification: up to MaxPair calls, in flight together,
\* of the tools that read, create, clone, delete and list templates, of a
\* tool without scope and of an unknown tool.
PairTools ==
  {"get_template", "create_template", "clone_template", "delete_template",
   "list_templates", "get_account"} \cup UnknownTools

PairInputs ==
  {x \in PlainInputs :
     /\ x.name \in PairTools
     /\ \A k \in IdKeys \cap DOMAIN x.args : x.args[k] \in {"t1", "t3"}}

\* Two tenants, each with its key and its scope, and a caller without a key.
PairRequests ==
  {r \in HttpRequests :
     \/ r.apiKey = "k1" /\ r.folderId = "f1" /\ r.externalId = "e1"
     \/ r.auth.scheme = "Bearer" /\ r.folderId = "f2"
     \/ r.apiKey = Null /\ r.auth.scheme = Null}

NextPair ==
  \/ \E r \in PairRequests : HttpMcpRequest(r)
  \/ \E c \in CallIds, i \in Dispatchable : DispatchCall(c, i, PairInputs, MaxPair)
  \/ \E c \in CallIds, inherit \in BOOLEAN : AnswerOk(c, inherit)
  \/ \E c \in CallIds : AnswerEmpty(c)
  \/ \E c \in CallIds, e \in ErrorAnswers : AnswerError(c, e)
  \/ \E c \in CallIds : SendResponse(c)

SpecPair == Init /\ [][NextPair]_vars

\* The hang specification: one stdio process with a key serving up to
\* MaxHang calls of a validated tool, of a tool with follow-up requests and
\* of a tool with one request.
\* The downstream API may leave the requests of the call in frame 1
\* unanswered for ever; it answers every request of a call in frame 2, the
\* frame of the calls that arrive while frame 1 is occupied, and a finished
\* handler's response is always written.
HangInputs ==
  {x \in PairInputs : x.name \in {"get_template", "clone_template", "get_account"}}

InitHang == Init /\ mode = "stdio" /\ Truthy(env.TEMPLATED_API_KEY)

Answer(c) ==
  \/ \E inherit \in BOOLEAN : AnswerOk(c, inherit)
  \/ AnswerEmpty(c)
  \/ \E e \in ErrorAnswers : AnswerError(c, e)

NextHang ==
  \/ \E c \in CallIds : DispatchCall(c, 0, HangInputs, MaxHang)
  \/ \E c \in CallIds, inherit \in BOOLEAN : AnswerOk(c, inherit)
  \/ \E c \in CallIds : AnswerEmpty(c)
  \/ \E c \in CallIds, e \in ErrorAnswers : AnswerError(c, e)
  \/ \E c \in CallIds : SendResponse(c)

SpecHang ==
  /\ InitHang
  /\ [][NextHang]_vars
  /\ WF_vars(Answer(2))
  /\ \A c \in CallIds : WF_vars(SendResponse(c))

\* The routing specification: an HTTP process, with and without a configured
\* verification token, receiving requests of every method on every path.
RouteEnvironments ==
  {[e EXCEPT !.OPENAI_VERIFICATION_TOKEN = t] :
     <<e, t>> \in {x \in Environments : main(x) = "http"} \X {Undefined, Empty, "tok"}}

InitRoute ==
  /\ env \in RouteEnvironments
  /\ mode = main(env)
  /\ currentApiKey = Null
  /\ currentFolderId = Null
  /\ currentExternalId = Null
  /\ pending = <<>>
  /\ nhttp = 0
  /\ calls = [c \in CallIds |-> IdleCall]
  /\ ncalls = 0
  /\ templates = InitialTemplates
  /\ created = 0
  /\ lastList = NoList
  /\ httpRes = NoHttpResponse
  /\ registry = tools

NextRoute ==
  \/ \E method \in Methods, path \in Paths : HttpPlainRequest(method, path)
  \/ HttpEnd
  \/ \E r \in PairRequests : HttpMcpRequest(r)
  \/ \E i \in 1..Len(pending), path \in McpPaths, sent \in BOOLEAN :
       TransportRaises(i, path, sent)

SpecRoute == InitRoute /\ [][NextRoute]_vars

\* ------------------------------------------------------------ properties
Started(c) == calls[c].pc # "idle"

Done(c) == calls[c].pc = "done"

ResponseText(c) == calls[c].resp.content[1].text

RequestKinds(c) == {calls[c].reqs[i].kind : i \in 1..Len(calls[c].reqs)}

\* The requests that act on the target itself (not the validators' reads).
ActingKinds == {"own", "move", "setext"}

\* C1: a call of a name that is not in the registry, with or without an
\* arguments object, never awaits anything: it ends at once with an error
\* payload (isError = true) whose text contains "Unknown tool", and it issues
\* no downstream request.
C1_UnknownToolIsErrorPayload ==
  \A c \in CallIds :
    Started(c) /\ calls[c].name \notin ToolNames =>
      /\ Done(c)
      /\ IsErrorResponse(calls[c].resp)
      /\ Len(calls[c].resp.content) = 1
      /\ Contains(ResponseText(c), "Unknown tool")
      /\ calls[c].reqs = <<>>

\* C1 witness: an unknown tool called without an arguments object has ended.
C1_Witness ==
  \E c \in CallIds : Done(c) /\ calls[c].name \notin ToolNames /\ ~calls[c].hasArgs

ListedNames == {lastList.tools[i].name : i \in 1..Len(lastList.tools)}

\* C2: a list() computed while a folder scope is configured (with or without
\* an external-id scope) holds none of the four folder-management tools and
\* holds every other name of the registry exactly once.
C2_FolderScopedListHidesFolderTools ==
  lastList.listed /\ Truthy(lastList.folderId) =>
    /\ ListedNames \cap FolderTools = {}
    /\ \A n \in ToolNames \ FolderTools :
         Cardinality({i \in 1..Len(lastList.tools) : lastList.tools[i].name = n}) = 1

\* C2 witness: a list() was computed under a folder scope and an external-id scope.
C2_Witness ==
  lastList.listed /\ Truthy(lastList.folderId) /\ Truthy(lastList.externalId)

\* C3: when a folder scope is in force at the start of a validated operation
\* and the template the folder validator fetched has another folderId, the
\* call ends at once with an error payload and has issued no request that
\* acts on the target (neither the operation's own nor a follow-up).
C3_OutOfFolderIsRejected ==
  \A c \in CallIds :
    /\ calls[c].name \in ValidatedTools
    /\ Truthy(calls[c].dFolderId)
    /\ calls[c].vFolderId \notin {"unseen", calls[c].dFolderId}
    => /\ Done(c)
       /\ IsErrorResponse(calls[c].resp)
       /\ RequestKinds(c) \cap ActingKinds = {}

\* C3 witness: delete_template on an existing template of another folder has ended.
C3_Witness ==
  \E c \in CallIds :
    /\ Done(c)
    /\ calls[c].name = "delete_template"
    /\ Truthy(calls[c].dFolderId)
    /\ calls[c].vFolderId \in Folders \ {calls[c].dFolderId}

\* C4 (as claimed): with a folder scope and an external-id scope in force at
\* the start of a validated operation, the operation succeeds only on a
\* template whose folderId and externalId, as the validators fetched them,
\* both equal that scope.
C4_BothScopesMustMatch ==
  \A c \in CallIds :
    /\ Done(c)
    /\ calls[c].name \in ValidatedTools
    /\ Truthy(calls[c].dFolderId)
    /\ Truthy(calls[c].dExternalId)
    /\ ~IsErrorResponse(calls[c].resp)
    => /\ calls[c].vFolderId = calls[c].dFolderId
       /\ calls[c].vExternalId = calls[c].dExternalId

\* C5 (as claimed): a create_template call started under a folder scope that
\* returns a success payload has attached the created template to that
\* folder: the folder-scoped listing of that folder holds the returned id.
C5_CreatedTemplateIsInFolder ==
  \A c \in CallIds :
    /\ Done(c)
    /\ calls[c].name = "create_template"
    /\ Truthy(calls[c].dFolderId)
    /\ ~IsErrorResponse(calls[c].resp)
    => calls[c].resultId \in Listing(templates, calls[c].dFolderId, Null)

\* C6 (as claimed): a clone_template call started under an external-id scope
\* that returns a success payload has set that external id on the clone: the
\* listing filtered by that external id holds the returned id.
C6_CloneCarriesExternalId ==
  \A c \in CallIds :
    /\ Done(c)
    /\ calls[c].name = "clone_template"
    /\ Truthy(calls[c].dExternalId)
    /\ ~IsErrorResponse(calls[c].resp)
    => calls[c].resultId \in Listing(templates, Null, calls[c].dExternalId)

\* C7: a call whose downstream request was answered non-2xx with status s and
\* body b ends with an error payload whose text contains s and b.
C7_DownstreamErrorSurfaces ==
  \A c \in CallIds :
    Started(c) /\ calls[c].answer.status >= 300 =>
      /\ Done(c)
      /\ IsErrorResponse(calls[c].resp)
      /\ Contains(ResponseText(c), ToString(calls[c].answer.status))
      /\ Contains(ResponseText(c), calls[c].answer.body)

\* C7 witness: a call ended after the downstream API answered 404 "not found".
C7_Witness ==
  \E c \in CallIds :
    Done(c) /\ calls[c].answer = [status |-> 404, body |-> "not found"]

\* The optional schema properties the caller of c omitted.
Omitted(c) == ToolByName(calls[c].name).optional \ DOMAIN calls[c].args

AbsentValues == {Null, Undefined, Empty}

\* C8: in every request a call puts on the wire, neither the body nor the
\* query holds a key of an optional argument the caller omitted with a null,
\* undefined or empty value.
C8_OmittedOptionalsNotSent ==
  \A c \in CallIds :
    calls[c].name \in ToolNames /\ calls[c].hasArgs =>
      \A i \in 1..Len(calls[c].reqs), k \in Omitted(c) :
        LET w == calls[c].reqs[i].wire
        IN /\ k \in DOMAIN w.body => w.body[k] \notin AbsentValues
           /\ k \in DOMAIN w.query => w.query[k] \notin AbsentValues

\* C8 witness: create_render without format, with another optional argument
\* supplied, has put its POST on the wire.
C8_Witness ==
  \E c \in CallIds :
    /\ calls[c].name = "create_render"
    /\ "format" \notin DOMAIN calls[c].args
    /\ "name" \in DOMAIN calls[c].args
    /\ "own" \in RequestKinds(c)

\* The responses a validated call can get for a template that does not exist.
MissingTemplateResponses ==
  {ErrorResponse(ApiErrorMessage(e.status, e.body)) : e \in ErrorAnswers}

\* A validator fetched the template (it exists) and rejected it.
RejectedByScope(c) ==
  /\ Done(c)
  /\ IsErrorResponse(calls[c].resp)
  /\ calls[c].answer.status = 200
  /\ calls[c].reqs # <<>>
  /\ InFlight(calls[c]).kind \in {"vfolder", "vext"}

\* C9 (as claimed): the response for a template that exists outside the
\* scope is one a template that does not exist gets.
C9_ScopeRejectionLooksMissing ==
  \A c \in CallIds : RejectedByScope(c) => calls[c].resp \in MissingTemplateResponses

\* The scope a request's own parameters give: each parameter when present,
\* else the startup environment's value.
OwnFolderId(r) ==
  IF Truthy(r.folderId) THEN r.folderId
  ELSE IF Truthy(env.TEMPLATED_FOLDER_ID) THEN env.TEMPLATED_FOLDER_ID ELSE Null

OwnExternalId(r) ==
  IF Truthy(r.externalId) THEN r.externalId
  ELSE IF Truthy(env.TEMPLATED_EXTERNAL_ID) THEN env.TEMPLATED_EXTERNAL_ID ELSE Null

OwnApiKey(r) ==
  IF Truthy(RequestApiKey(r)) THEN RequestApiKey(r)
  ELSE IF Truthy(env.TEMPLATED_API_KEY) THEN env.TEMPLATED_API_KEY ELSE Empty

\* C10 (as claimed): in HTTP mode a call is dispatched under the API key,
\* folder id and external id of its own request; a request without a folder
\* id (external id) is not dispatched under one an earlier request left.
C10_DispatchedUnderOwnScope ==
  \A c \in CallIds :
    mode = "http" /\ Started(c) =>
      /\ calls[c].dApiKey = OwnApiKey(calls[c].params)
      /\ calls[c].dFolderId = OwnFolderId(calls[c].params)
      /\ calls[c].dExternalId = OwnExternalId(calls[c].params)

\* A call that arrived on an HTTP request with no apiKey query parameter and
\* no Bearer Authorization header.
Unauthenticated(c) ==
  mode = "http" /\ Started(c) /\ ~Truthy(RequestApiKey(calls[c].params))

\* C11 (as claimed): in HTTP mode a call of a registered tool that arrived on
\* a request without apiKey parameter and without Bearer header ends at once
\* with the missing-credential error and issues no downstream request,
\* whatever key the environment or an earlier request supplied.
C11_UnauthenticatedCannotExecute ==
  \A c \in CallIds :
    Unauthenticated(c) /\ calls[c].name \in ToolNames /\ calls[c].hasArgs =>
      /\ Done(c)
      /\ calls[c].resp = ErrorResponse(MissingKeyMessage)
      /\ calls[c].reqs = <<>>

ListingTools == {"list_templates", "list_renders"}

\* The listing path of a list tool: folder-scoped or account-wide.
FolderPath(name, folderId) ==
  <<"/v1/folder/", folderId, IF name = "list_templates" THEN "/templates" ELSE "/renders">>

AccountPath(name) == IF name = "list_templates" THEN <<"/v1/templates">> ELSE <<"/v1/renders">>

\* C12: the request of list_templates / list_renders goes to the
\* folder-scoped path of the configured folder exactly when a folder is
\* configured, else to the account-wide path, and its query holds externalId
\* (equal to the configured external id) exactly when one is configured.
C12_ListPathsFollowScope ==
  \A c \in CallIds :
    calls[c].name \in ListingTools /\ calls[c].reqs # <<>> =>
      LET w == calls[c].reqs[1].wire
          f == calls[c].dFolderId
          e == calls[c].dExternalId
      IN /\ Len(calls[c].reqs) = 1
         /\ w.method = "GET"
         /\ w.path = IF Truthy(f) THEN FolderPath(calls[c].name, f)
                     ELSE AccountPath(calls[c].name)
         /\ ("externalId" \in DOMAIN w.query) = Truthy(e)
         /\ Truthy(e) => w.query["externalId"] = e

\* C12 witness: list_renders has put its request on the wire under a folder
\* scope and an external-id scope.
C12_Witness ==
  \E c \in CallIds :
    /\ calls[c].name = "list_renders"
    /\ calls[c].reqs # <<>>
    /\ Truthy(calls[c].dFolderId)
    /\ Truthy(calls[c].dExternalId)

RenderTools == {"get_render", "delete_render", "merge_renders"}

\* The object lies in the scope: in the folder when one is configured, and of
\* the external id when one is configured.
InScope(object, folderId, externalId) ==
  /\ Truthy(folderId) => object.folderId = folderId
  /\ Truthy(externalId) => object.externalId = externalId

\* C13 (as claimed): under an active scope no call addressed by render id
\* (get_render, delete_render, merge_renders) returns a success payload for a
\* render outside the scope in force when the call started.
C13_RenderToolsStayInScope ==
  \A c \in CallIds :
    /\ Done(c)
    /\ calls[c].name \in RenderTools
    /\ Truthy(calls[c].dFolderId) \/ Truthy(calls[c].dExternalId)
    /\ ~IsErrorResponse(calls[c].resp)
    => \A r \in RenderIdsOf(calls[c].args) :
         InScope(Renders[r], calls[c].dFolderId, calls[c].dExternalId)

\* C14 (as claimed): a call of a folder-management tool dispatched while a
\* folder scope is configured ends at once with an error payload and issues
\* no downstream request.
C14_FolderToolsSuppressedUnderFolderScope ==
  \A c \in CallIds :
    Started(c) /\ calls[c].name \in FolderTools /\ Truthy(calls[c].dFolderId) =>
      /\ Done(c)
      /\ IsErrorResponse(calls[c].resp)
      /\ calls[c].reqs = <<>>

\* The handler did not run to its return: it threw on the way.
Faulted(c) == Done(c) /\ calls[c].step <= Len(Plan(calls[c].name))

\* The messages of the faults a handler can raise.
FaultMessages ==
  {MissingKeyMessage, FolderMessage, ExternalIdMessage, TypeErrorMessage}
  \cup {UnknownToolMessage(n) : n \in UnknownTools}
  \cup {ApiErrorMessage(e.status, e.body) : e \in ErrorAnswers}

\* The response of an ended call is one text content item, flagged isError
\* exactly when the handler faulted, and then carrying the fault's message.
WellFormedResponse(c) ==
  /\ Len(calls[c].resp.content) = 1
  /\ calls[c].resp.content[1].type = "text"
  /\ IsErrorResponse(calls[c].resp) <=> Faulted(c)
  /\ Faulted(c) => \E m \in FaultMessages : calls[c].resp = ErrorResponse(m)

\* The step in which call c ends with an error payload.
FailsNow(c) ==
  /\ calls[c].pc # "done"
  /\ calls'[c].pc = "done"
  /\ IsErrorResponse(calls'[c].resp)

\* C15: every ended call holds a well-formed response (one text item, isError
\* exactly when the handler faulted), and the step in which a call fails
\* changes neither the Session Scope nor the record of any other call.
C15_FaultsBecomeErrorPayloads ==
  /\ [](\A c \in CallIds : Done(c) => WellFormedResponse(c))
  /\ [][\A c \in CallIds :
          FailsNow(c) =>
            /\ UNCHANGED <<currentApiKey, currentFolderId, currentExternalId>>
            /\ \A d \in CallIds \ {c} : calls'[d] = calls[d]]_vars

\* C15 witness: a call has ended with an error payload while another call
\* awaits its downstream answer.
C15_Witness ==
  \E c, d \in CallIds :
    /\ c # d
    /\ Done(c)
    /\ IsErrorResponse(calls[c].resp)
    /\ calls[d].pc = "wait"

\* The paths the claim lists as served.
ListedPaths == McpPaths \cup {HealthPath, OAuthPath, ChallengePath}

\* C16 (as claimed): every request to a path outside the listed ones is
\* answered 404, whatever its method.
C16_UnknownPathIs404 ==
  httpRes # NoHttpResponse /\ httpRes.path \notin ListedPaths => httpRes.status = 404

\* C16 (amended): a request to a path outside the listed ones is answered 404
\* with the body "Not found" unless it is an OPTIONS request, which is
\* answered 200 on every path, listed or not.
C16_UnknownPathIs404UnlessPreflight ==
  httpRes # NoHttpResponse =>
    /\ httpRes.method = "OPTIONS" => httpRes.status = 200
    /\ httpRes.method # "OPTIONS" /\ httpRes.path \notin ListedPaths =>
         httpRes.status = 404 /\ httpRes.body = "Not found"

\* C16 witness: a DELETE request to a path no route serves has been answered.
C16_Witness ==
  httpRes # NoHttpResponse /\ httpRes.method = "DELETE" /\ httpRes.path = "/other"

\* C17 (as claimed): one transport mode is started, and it is HTTP mode
\* exactly when the PORT environment variable is present.
C17_HttpIffPortPresent ==
  /\ mode \in {"http", "stdio"}
  /\ mode = "http" <=> env.PORT # Undefined

\* The PORT strings that start with a non-zero decimal integer.
NonZeroPorts == {"3000"}

\* C17 (amended): one transport mode is started, and it is HTTP mode exactly
\* when PORT is set to a string that starts with a non-zero decimal integer;
\* an unset, empty, zero or non-numeric PORT starts stdio mode.
C17_HttpIffPortIsNonZeroNumber ==
  /\ mode \in {"http", "stdio"}
  /\ mode = "http" <=> env.PORT \in NonZeroPorts
  /\ mode = "stdio" => nhttp = 0 /\ pending = <<>> /\ httpRes = NoHttpResponse

\* C17 witness: the process runs in stdio mode with PORT set to "0" and has
\* dispatched a call.
C17_Witness ==
  env.PORT = "0" /\ mode = "stdio" /\ ncalls > 0

Validators == {"vfolder", "vext"}

\* A validator ended the call: its fetch was refused or it rejected the template.
ValidationFailed(c) ==
  /\ Done(c)
  /\ IsErrorResponse(calls[c].resp)
  /\ calls[c].reqs # <<>>
  /\ InFlight(calls[c]).kind \in Validators

\* C18: in every call of a template-targeting tool the folder validator is
\* entered first, the external-id validator second and the operation's own
\* request is issued third, after both passed; the requests go out in that
\* order; and a call a validator ended has issued nothing but the
\* validators' GETs of the target.
C18_ValidatorsBeforeActing ==
  \A c \in CallIds :
    calls[c].name \in ValidatedTools =>
      LET st == calls[c].steps
          rq == calls[c].reqs
      IN /\ \A i \in 1..Len(st) :
              /\ st[i] = "vfolder" => i = 1
              /\ st[i] = "vext" => i = 2 /\ st[1] = "vfolder"
              /\ st[i] = "own" => i = 3 /\ st[1] = "vfolder" /\ st[2] = "vext"
              /\ st[i] \in ActingKinds \ {"own"} => i > 3 /\ st[3] = "own"
         /\ \A i, j \in 1..Len(rq) :
              i < j /\ rq[j].kind \in Validators =>
                rq[i].kind = "vfolder" /\ rq[j].kind = "vext"
         /\ ValidationFailed(c) =>
              \A i \in 1..Len(rq) :
                /\ rq[i].kind \in Validators
                /\ rq[i].wire = ValidationRequest(TargetId(calls[c]))

\* C18 witness: delete_template has issued its DELETE after both validators
\* fetched the target.
C18_Witness ==
  \E c \in CallIds :
    /\ calls[c].name = "delete_template"
    /\ Len(calls[c].reqs) = 3
    /\ InFlight(calls[c]).wire.method = "DELETE"

\* The i-th request of call c used a key, folder id or external id other
\* than the one the call's own request (or, failing that, the environment)
\* gives.
ForeignScope(c, i) ==
  LET rq == calls[c].reqs[i]
      own == calls[c].params
  IN \/ rq.key # OwnApiKey(own)
     \/ rq.kind \in {"vfolder", "move"} /\ rq.local # OwnFolderId(own)
     \/ rq.kind \in {"vext", "setext"} /\ rq.local # OwnExternalId(own)

\* C19: a call issues a downstream request, validates or moves under a key
\* or scope that is not its own request's only in HTTP mode and only once a
\* second MCP request has been accepted; there the interleaving exists (the
\* witness): one step of a call reads its own request's scope and a later
\* step of the same call reads the other request's.
C19_ForeignScopeNeedsSecondRequest ==
  \A c \in CallIds :
    \A i \in 1..Len(calls[c].reqs) :
      ForeignScope(c, i) => mode = "http" /\ nhttp >= 2

\* C19 witness: a clone_template call validated the folder of its own request
\* under its own key, and its later move-to-folder step used the key and the
\* folder id of another request.
C19_Witness ==
  \E c \in CallIds :
    /\ calls[c].name = "clone_template"
    /\ calls[c].reqs # <<>>
    /\ calls[c].reqs[1].kind = "vfolder"
    /\ ~ForeignScope(c, 1)
    /\ \E j \in 2..Len(calls[c].reqs) :
         /\ calls[c].reqs[j].kind = "move"
         /\ calls[c].reqs[j].local # calls[c].reqs[1].local
         /\ calls[c].reqs[j].key # calls[c].reqs[1].key

\* The follow-up request of a create_template or clone_template call (the
\* move to the folder, or the external-id update of the clone) was issued
\* after the create / clone request returned the new id, and was refused.
FollowUpFailed(c) ==
  /\ Done(c)
  /\ calls[c].name \in {"create_template", "clone_template"}
  /\ Truthy(calls[c].resultId)
  /\ calls[c].answer.status >= 300
  /\ InFlight(calls[c]).kind \in {"move", "setext"}

PathArgs == {"template_id", "render_id", "folder_id", "upload_id", "font_id"}

\* The name an argument has on the wire.
WireKey(k) == IF k = "render_ids" THEN "ids" ELSE k

\* The argument k, supplied with the value v, is carried by the request: in
\* the path, or under its name in the body, or under its name in the query
\* (as a string).
Carried(k, v, wire) ==
  IF k \in PathArgs THEN JsString(v) \in Range(wire.path)
  ELSE \/ WireKey(k) \in DOMAIN wire.body /\ wire.body[WireKey(k)] = v
       \/ WireKey(k) \in DOMAIN wire.query /\ wire.query[WireKey(k)] = JsString(v)

\* C21 (as claimed): the request a tool's handler issues for the operation
\* carries every schema-declared argument the caller supplied, background and
\* duration of create_template / update_template and the values false and 0
\* included.
C21_SuppliedArgumentsAreCarried ==
  \A c \in CallIds :
    calls[c].name \in ToolNames /\ calls[c].hasArgs =>
      \A i \in 1..Len(calls[c].reqs) :
        calls[c].reqs[i].kind = "own" =>
          \A k \in DOMAIN calls[c].args :
            Carried(k, calls[c].args[k], calls[c].reqs[i].wire)

\* 1 when the scope component is configured, else 0.
One(scope) == IF Truthy(scope) THEN 1 ELSE 0

\* The requests a successful call issues under a fixed scope: the
\* operation's own, one fetch of the target per configured scope component
\* for a validated tool, the move to the folder for create_template and
\* clone_template under a folder, the external-id update for clone_template
\* under an external id.
ExpectedRequests(name, folderId, externalId) ==
  1 + (IF name \in ValidatedTools THEN One(folderId) + One(externalId) ELSE 0)
    + (IF name \in {"create_template", "clone_template"} THEN One(folderId) ELSE 0)
    + (IF name = "clone_template" THEN One(externalId) ELSE 0)

Succeeded(c) == Done(c) /\ ~IsErrorResponse(calls[c].resp)

\* C22 (as claimed): a successful call has issued exactly one downstream
\* request, or exactly two for create_template and clone_template, under
\* every scope configuration.
C22_OneRequestOrTwo ==
  \A c \in CallIds :
    Succeeded(c) =>
      Len(calls[c].reqs) =
        IF calls[c].name \in {"create_template", "clone_template"} THEN 2 ELSE 1

\* C22 (amended): a successful call has issued exactly one request for the
\* operation itself and, besides it, one fetch of the target per configured
\* scope component when the tool is validated, one move when create_template
\* or clone_template runs under a folder, one external-id update when
\* clone_template runs under an external id: one request in all only for an
\* unvalidated tool or under no scope.
C22_RequestCountFollowsScope ==
  \A c \in CallIds :
    Succeeded(c) =>
      /\ Len(calls[c].reqs) =
           ExpectedRequests(calls[c].name, calls[c].dFolderId, calls[c].dExternalId)
      /\ Cardinality({i \in 1..Len(calls[c].reqs) : calls[c].reqs[i].kind = "own"}) = 1

\* C22 witness: clone_template succeeded under a folder scope and an
\* external-id scope, with five requests.
C22_Witness ==
  \E c \in CallIds :
    /\ Succeeded(c)
    /\ calls[c].name = "clone_template"
    /\ Truthy(calls[c].dFolderId)
    /\ Truthy(calls[c].dExternalId)
    /\ Len(calls[c].reqs) = 5

\* The call's last downstream answer was a failure.
AnswerFailed(c) == calls[c].answer.status >= 300

\* The call failed for want of a credential.
CredentialMissing(c) ==
  Done(c) /\ IsErrorResponse(calls[c].resp) /\ ResponseText(c) = MissingKeyMessage

\* No step of the call's sequence has issued its request twice.
IssuedOnce(c) ==
  \A i, j \in 1..Len(calls[c].reqs) :
    i # j => calls[c].reqs[i].kind # calls[c].reqs[j].kind

\* C23: no downstream request is retried.  Within a call every request of
\* its sequence is issued at most once; a call whose request was answered
\* non-2xx, or that found no credential, has no request in flight and issues
\* no further request (its list of requests only ends with the call).
C23_NothingIsRetried ==
  /\ [](\A c \in CallIds :
          /\ IssuedOnce(c)
          /\ AnswerFailed(c) \/ CredentialMissing(c) => calls[c].pc = "done")
  /\ [][\A c \in CallIds :
          AnswerFailed(c) \/ CredentialMissing(c) =>
            calls'[c].reqs = calls[c].reqs \/ calls'[c] = IdleCall]_vars

\* C23 witness: clone_template's own request, issued after the scope
\* fetch, was answered non-2xx with its follow-up requests still to come.
C23_Witness ==
  \E c \in CallIds :
    /\ Done(c)
    /\ AnswerFailed(c)
    /\ calls[c].name = "clone_template"
    /\ Len(calls[c].reqs) >= 2
    /\ InFlight(calls[c]).kind = "own"

\* C24: a call whose downstream request is never answered never completes
\* and is never cancelled (an awaiting call changes only when its answer
\* arrives), while every other call, in flight or later, whose requests
\* are answered returns its response; no call has issued more requests than
\* its sequence has steps.
C24_HangStallsOnlyTheAwaitingCall ==
  /\ [][\A c \in CallIds :
          calls[c].pc = "wait" /\ calls'[c] # calls[c] => Answer(c)]_vars
  /\ [](\A c \in CallIds :
          calls[c].name \in ToolNames => Len(calls[c].reqs) <= Len(Plan(calls[c].name)))
  /\ (calls[2].pc = "wait" ~> calls[2].pc = "done")
  /\ (calls[2].pc = "done" ~> calls[2].pc = "idle")

\* C24 witness: the first call still awaits its first answer while the last
\* of the later calls has finished with a successful response after a
\* downstream request of its own.
C24_Witness ==
  /\ calls[1].pc = "wait"
  /\ Len(calls[1].reqs) = 1
  /\ ncalls = MaxHang
  /\ Succeeded(2)
  /\ Len(calls[2].reqs) >= 1

\* C25: a request to an MCP path gets exactly one HTTP response.  When
\* the transport raises before any headers were sent the response is a 500;
\* when it raises after headers were sent the transport's status line stays
\* the only one; either way one request is consumed, the response can be
\* finished and the process goes on serving.
C25_TransportFaultsAreContained ==
  /\ [](httpRes # NoHttpResponse /\ httpRes.path \in McpPaths =>
          /\ httpRes.heads = 1
          /\ httpRes.fault = "before" =>
               httpRes.status = 500 /\ httpRes.body = "Internal server error"
          /\ httpRes.fault = "after" => httpRes.status = Partial(httpRes.path, TRUE).status
          /\ httpRes.fault = "none" => httpRes.method = "OPTIONS" /\ httpRes.status = 200
          /\ ENABLED HttpEnd)
  /\ [](mode = main(env))
  /\ [][httpRes'.fault # "none" /\ httpRes.fault = "none" =>
          Len(pending') = Len(pending) - 1]_vars

\* C25 witness: the transport raised before it sent headers, on a request
\* to /sse, and the handler wrote the 500.
C25_Witness ==
  /\ httpRes.fault = "before"
  /\ httpRes.path = "/sse"
  /\ httpRes.status = 500
  /\ mode = "http"

\* The transport raised after it had sent headers.
C25_RaisedAfterHeaders ==
  httpRes.fault = "after" /\ httpRes.heads = 1 /\ httpRes.status = 200

RelabelledTools == {"list_templates", "list_renders"}

\* The registry's entry of the given name.
Registered(n) == tools[CHOOSE i \in 1..Len(tools) : tools[i].name = n]

\* C26: the tool registry is never modified.  After any list() and call()
\* operations under any scope it holds the tools it held at startup; an
\* unscoped listing is the registry itself; every tool of a scoped listing
\* is the registry's tool of that name, except that list_templates and
\* list_renders differ from it in their description and in nothing else.
C26_RegistryIsNeverModified ==
  /\ registry = tools
  /\ lastList.listed =>
       IF ~Truthy(lastList.folderId) /\ ~Truthy(lastList.externalId)
         THEN lastList.tools = tools
       ELSE \A i \in 1..Len(lastList.tools) :
              LET t == lastList.tools[i]
              IN /\ t.name \in ToolNames
                 /\ IF t.name \in RelabelledTools
                      THEN /\ t.description # Registered(t.name).description
                           /\ [t EXCEPT !.description = Registered(t.name).description]
                                = Registered(t.name)
                    ELSE t = Registered(t.name)

\* C26 witness: a scoped listing computed after a tool call was served and
\* after every HTTP request of the behaviour was accepted.
C26_Witness ==
  /\ lastList.listed
  /\ Truthy(lastList.folderId)
  /\ ncalls > 0
  /\ nhttp = MaxHttp
  /\ "list_templates" \in ListedNames

====
